---- MODULE Spec2Model ----
(***************************************************************************)
(* The union-find of crates/unionfind: UnionFind<T, V, ByRank<T>> over a   *)
(* HashMap parent mapping (generic.rs) with the ByRank extra-info          *)
(* (extra.rs).  Keys are small integers.                                   *)
(***************************************************************************)
EXTENDS Integers, FiniteSets, Sequences, TLC

VARIABLES parent,   \* UnionFind.parent: key -> parent key
          extra,    \* UnionFind.extra, the ByRank mapping: key -> rank
          last,     \* the last call: operation, arguments, returned value
          pre,      \* parent and extra as they were when the last call began
          classes   \* the classes the successful unions so far generate

vars == <<parent, extra, last, pre, classes>>

\* ------------------------------------------------------------------ bounds
MaxKey == 4
MaxSmallKey == 3
MaxTinyKey == 2
MaxInit == 3
MaxExtra == 1

\* The keys of Spec, of SpecBy and of SpecFull
Keys == 0..MaxKey
SmallKeys == 0..MaxSmallKey
TinyKeys == 0..MaxTinyKey
ExtraValues == 0..MaxExtra

\* Option::None of a key, and the outcome of a recursion that never returns
None == -1
Diverge == -2
DefaultRank == 0

EmptyMap == [k \in {} |-> 0]

Range(s) == {s[i] : i \in 1..Len(s)}

RECURSIVE SeqsOfLen(_, _)
SeqsOfLen(K, n) ==
    IF n = 0 THEN {<<>>}
    ELSE {Append(s, k) : s \in SeqsOfLen(K, n - 1), k \in K}

InitialCollections(K) == UNION {SeqsOfLen(K, n) : n \in 0..MaxInit}

\* ------------------------------------------------- crate::mapping (HashMap)
HasDuplicates(elems) ==
    \E i, j \in 1..Len(elems) : i # j /\ elems[i] = elems[j]

identity_map(elems) ==
    IF HasDuplicates(elems)
    THEN [ok |-> FALSE, map |-> EmptyMap]
    ELSE [ok |-> TRUE, map |-> [k \in Range(elems) |-> k]]

zero_map(elems) ==
    IF HasDuplicates(elems)
    THEN [ok |-> FALSE, map |-> EmptyMap]
    ELSE [ok |-> TRUE, map |-> [k \in Range(elems) |-> 0]]

get(m, key) == IF key \in DOMAIN m THEN m[key] ELSE None

set(m, key, value) ==
    IF key \in DOMAIN m THEN [m EXCEPT ![key] = value] ELSE m

mapping_add(m, key, value) ==
    IF key \in DOMAIN m
    THEN [ok |-> FALSE, map |-> m]
    ELSE [ok |-> TRUE, map |-> m @@ (key :> value)]

add_identity(m, key) == mapping_add(m, key, key)

\* ----------------------------------------------------------------- ByRank
rank(e, elem) == get(e, elem)

set_rank(e, elem, r) == set(e, elem, r)

default_mapping(elems) == zero_map(elems)

extra_add(e, elem, value) == mapping_add(e, elem, value)

\* -------------------------------------------------------------- UnionFind
\* The result of an operation: what it returned, and the maps it leaves.
Outcome(out, r, p, e) == [out |-> out, r |-> r, parent |-> p, extra |-> e]

new(elems) ==
    LET p == identity_map(elems)
        e == default_mapping(elems)
    IN  IF ~p.ok \/ ~e.ok
        THEN Outcome("Panic", None, EmptyMap, EmptyMap)
        ELSE Outcome("Ok", None, p.map, e.map)

\* find recurses once per parent edge; on a cycle of length > 1 it never
\* returns.  A path without a cycle has at most Cardinality(DOMAIN p) edges,
\* so running out of fuel means the recursion is unbounded.
RECURSIVE find_rec(_, _, _)
find_rec(p, elem, fuel) ==
    IF fuel = 0 THEN Diverge
    ELSE LET par == get(p, elem)
         IN  IF par = None THEN None
             ELSE IF par = elem THEN par
             ELSE find_rec(p, par, fuel - 1)

find(p, elem) == find_rec(p, elem, Cardinality(DOMAIN p) + 1)

\* the path shortening with its arguments swapped
shorten_swapped(p, elem, new_parent) == set(p, new_parent, elem)

\* the visited key made its own parent
shorten_to_self(p, elem, new_parent) == set(p, elem, elem)

shorten(p, elem, new_parent) == set(p, elem, new_parent)

RECURSIVE find_shorten_rec(_, _, _)
find_shorten_rec(p, elem, fuel) ==
    IF fuel = 0 THEN [res |-> Diverge, parent |-> p]
    ELSE LET par == get(p, elem)
         IN  IF par = None THEN [res |-> None, parent |-> p]
             ELSE IF par = elem THEN [res |-> par, parent |-> p]
             ELSE LET inner == find_shorten_rec(p, par, fuel - 1)
                  IN  IF inner.res \in {None, Diverge} THEN inner
                      ELSE [res |-> inner.res,
                            parent |-> shorten(inner.parent, elem, inner.res)]

find_shorten(p, elem) == find_shorten_rec(p, elem, Cardinality(DOMAIN p) + 1)

\* add_with_extra overwriting the rank of a key that is already present
add_with_extra_upsert(uf, elem, value) ==
    LET p == add_identity(uf.parent, elem)
    IN  IF ~p.ok
        THEN Outcome("AddError::Parent", None, uf.parent,
                     set_rank(uf.extra, elem, value))
        ELSE LET e == extra_add(uf.extra, elem, value)
             IN  IF ~e.ok
                 THEN Outcome("AddError::Extra", None, p.map, uf.extra)
                 ELSE Outcome("Ok", None, p.map, e.map)

add_with_extra(uf, elem, value) ==
    LET p == add_identity(uf.parent, elem)
    IN  IF ~p.ok
        THEN Outcome("AddError::Parent", None, uf.parent, uf.extra)
        ELSE LET e == extra_add(uf.extra, elem, value)
             IN  IF ~e.ok
                 THEN Outcome("AddError::Extra", None, p.map, uf.extra)
                 ELSE Outcome("Ok", None, p.map, e.map)

\* add without the insertion into the extra-info
add_parent_only(uf, elem) ==
    LET p == add_identity(uf.parent, elem)
    IN  IF ~p.ok
        THEN Outcome("AddError::Parent", None, uf.parent, uf.extra)
        ELSE Outcome("Ok", None, p.map, uf.extra)

add(uf, elem) ==
    LET p == add_identity(uf.parent, elem)
    IN  IF ~p.ok
        THEN Outcome("AddError::Parent", None, uf.parent, uf.extra)
        ELSE LET e == extra_add(uf.extra, elem, DefaultRank)
             IN  IF ~e.ok
                 THEN Outcome("AddError::Extra", None, p.map, uf.extra)
                 ELSE Outcome("Ok", None, p.map, e.map)

find_or_add(uf, elem) ==
    LET f == find(uf.parent, elem)
    IN  IF f = Diverge
        THEN Outcome("StackOverflow", None, uf.parent, uf.extra)
        ELSE IF f # None THEN Outcome("Ok", f, uf.parent, uf.extra)
        ELSE LET a == add(uf, elem)
             IN  IF a.out # "Ok"
                 THEN Outcome("Panic", None, a.parent, a.extra)
                 ELSE Outcome("Ok", elem, a.parent, a.extra)

\* What a union strategy hands back: a key, or its refusal; None stands for
\* a strategy that is never called.
NotUnionable == -3
StrategyResults(K) == K \cup {NotUnionable, None}

\* union_helper repointing parent1 before it asks the strategy
union_helper_early_set(uf, parent1, parent2, u) ==
    IF parent1 = parent2
    THEN Outcome("AlreadyEquivalent", None, uf.parent, uf.extra)
    ELSE IF u = NotUnionable
    THEN Outcome("NotUnionable", None,
                 set(uf.parent, parent1, parent2), uf.extra)
    ELSE Outcome("PerformedUnion", None,
                 set(set(uf.parent, parent1, u), parent2, u), uf.extra)

union_helper(uf, parent1, parent2, u) ==
    IF parent1 = parent2
    THEN Outcome("AlreadyEquivalent", None, uf.parent, uf.extra)
    ELSE IF u = NotUnionable
    THEN Outcome("NotUnionable", None, uf.parent, uf.extra)
    ELSE Outcome("PerformedUnion", None,
                 set(set(uf.parent, parent1, u), parent2, u), uf.extra)

union_by(uf, elem1, elem2, u) ==
    LET f1 == find_shorten(uf.parent, elem1)
    IN  IF f1.res = Diverge
        THEN Outcome("StackOverflow", None, f1.parent, uf.extra)
        ELSE IF f1.res = None
        THEN Outcome("Elem1NotFound", None, f1.parent, uf.extra)
        ELSE LET f2 == find_shorten(f1.parent, elem2)
             IN  IF f2.res = Diverge
                 THEN Outcome("StackOverflow", None, f2.parent, uf.extra)
                 ELSE IF f2.res = None
                 THEN Outcome("Elem2NotFound", None, f2.parent, uf.extra)
                 ELSE union_helper([parent |-> f2.parent, extra |-> uf.extra],
                                   f1.res, f2.res, u)

\* union_by_rank_helper without the repointing in the Less case
union_by_rank_helper_less_unset(uf, parent1, parent2) ==
    IF parent1 = parent2
    THEN Outcome("AlreadyEquivalent", None, uf.parent, uf.extra)
    ELSE LET rank1 == rank(uf.extra, parent1)
             rank2 == rank(uf.extra, parent2)
         IN  IF rank1 < rank2
             THEN Outcome("PerformedUnion", None, uf.parent, uf.extra)
             ELSE IF rank1 = rank2
             THEN Outcome("PerformedUnion", None,
                          set(uf.parent, parent1, parent2),
                          set_rank(uf.extra, parent2, rank2 + 1))
             ELSE Outcome("PerformedUnion", None,
                          set(uf.parent, parent2, parent1), uf.extra)

\* union_by_rank_helper raising the rank of the absorbed representative
union_by_rank_helper_rank_of_absorbed(uf, parent1, parent2) ==
    IF parent1 = parent2
    THEN Outcome("AlreadyEquivalent", None, uf.parent, uf.extra)
    ELSE LET rank1 == rank(uf.extra, parent1)
             rank2 == rank(uf.extra, parent2)
         IN  IF rank1 < rank2
             THEN Outcome("PerformedUnion", None,
                          set(uf.parent, parent1, parent2), uf.extra)
             ELSE IF rank1 = rank2
             THEN Outcome("PerformedUnion", None,
                          set(uf.parent, parent1, parent2),
                          set_rank(uf.extra, parent1, rank1 + 1))
             ELSE Outcome("PerformedUnion", None,
                          set(uf.parent, parent2, parent1), uf.extra)

union_by_rank_helper(uf, parent1, parent2) ==
    IF parent1 = parent2
    THEN Outcome("AlreadyEquivalent", None, uf.parent, uf.extra)
    ELSE LET rank1 == rank(uf.extra, parent1)
             rank2 == rank(uf.extra, parent2)
         IN  IF rank1 = None
             THEN Outcome("Elem1NotFound", None, uf.parent, uf.extra)
             ELSE IF rank2 = None
             THEN Outcome("Elem2NotFound", None, uf.parent, uf.extra)
             ELSE IF rank1 < rank2
             THEN Outcome("PerformedUnion", None,
                          set(uf.parent, parent1, parent2), uf.extra)
             ELSE IF rank1 = rank2
             THEN Outcome("PerformedUnion", None,
                          set(uf.parent, parent1, parent2),
                          set_rank(uf.extra, parent2, rank2 + 1))
             ELSE Outcome("PerformedUnion", None,
                          set(uf.parent, parent2, parent1), uf.extra)

union_by_rank(uf, elem1, elem2) ==
    LET f1 == find_shorten(uf.parent, elem1)
    IN  IF f1.res = Diverge
        THEN Outcome("StackOverflow", None, f1.parent, uf.extra)
        ELSE IF f1.res = None
        THEN Outcome("Elem1NotFound", None, f1.parent, uf.extra)
        ELSE LET f2 == find_shorten(f1.parent, elem2)
             IN  IF f2.res = Diverge
                 THEN Outcome("StackOverflow", None, f2.parent, uf.extra)
                 ELSE IF f2.res = None
                 THEN Outcome("Elem2NotFound", None, f2.parent, uf.extra)
                 ELSE union_by_rank_helper(
                          [parent |-> f2.parent, extra |-> uf.extra],
                          f1.res, f2.res)

\* ---------------------------------------------------------- state machine
self == [parent |-> parent, extra |-> extra]

\* No call is in progress: the caller has taken the last call's result.
Idle == last.op = "idle"

Call(op, a, b, u, o) ==
    /\ last' = [op |-> op, a |-> a, b |-> b, u |-> u, out |-> o.out, r |-> o.r]
    /\ pre' = self
    /\ parent' = o.parent
    /\ extra' = o.extra

\* The classes generated by the unions that returned Ok.
Merge(cls, a, b) ==
    LET A == UNION {c \in cls : a \in c}
        B == UNION {c \in cls : b \in c}
    IN  {c \in cls : a \notin c /\ b \notin c} \cup {A \cup B}

InitOver(K) ==
    \E elems \in InitialCollections(K) :
        LET o == new(elems)
        IN  /\ parent = o.parent
            /\ extra = o.extra
            /\ last = [op |-> "new", a |-> None, b |-> None, u |-> None,
                       out |-> o.out, r |-> None]
            /\ pre = [parent |-> EmptyMap, extra |-> EmptyMap]
            /\ classes = {{k} : k \in DOMAIN o.parent}

Init == InitOver(Keys)

InitSmall == InitOver(SmallKeys)

InitTiny == InitOver(TinyKeys)

Find(elem) ==
    /\ Idle
    /\ LET f == find(parent, elem)
       IN  Call("find", elem, None, None,
                IF f = Diverge
                THEN Outcome("StackOverflow", None, parent, extra)
                ELSE Outcome("Ok", f, parent, extra))
    /\ UNCHANGED classes

FindShorten(elem) ==
    /\ Idle
    /\ LET f == find_shorten(parent, elem)
       IN  Call("find_shorten", elem, None, None,
                IF f.res = Diverge
                THEN Outcome("StackOverflow", None, f.parent, extra)
                ELSE Outcome("Ok", f.res, f.parent, extra))
    /\ UNCHANGED classes

Add(elem) ==
    /\ Idle
    /\ LET o == add(self, elem)
       IN  /\ Call("add", elem, None, None, o)
           /\ classes' = IF o.out = "Ok" THEN classes \cup {{elem}} ELSE classes

AddWithExtra(elem, value) ==
    /\ Idle
    /\ LET o == add_with_extra(self, elem, value)
       IN  /\ Call("add_with_extra", elem, None, value, o)
           /\ classes' = IF o.out = "Ok" THEN classes \cup {{elem}} ELSE classes

FindOrAdd(elem) ==
    /\ Idle
    /\ LET o == find_or_add(self, elem)
       IN  /\ Call("find_or_add", elem, None, None, o)
           /\ classes' = IF o.out = "Ok" /\ elem \notin DOMAIN parent
                         THEN classes \cup {{elem}} ELSE classes

\* union_by calls its strategy only when both elements are found and their
\* representatives differ; u is what the strategy returns when called, and
\* None when the call does not get that far.
StrategyCalled(elem1, elem2) ==
    LET f1 == find_shorten(parent, elem1)
        f2 == find_shorten(f1.parent, elem2)
    IN  /\ f1.res \notin {None, Diverge}
        /\ f2.res \notin {None, Diverge}
        /\ f1.res # f2.res

UnionBy(elem1, elem2, u) ==
    /\ Idle
    /\ (u = None) <=> ~StrategyCalled(elem1, elem2)
    /\ LET o == union_by(self, elem1, elem2, u)
       IN  /\ Call("union_by", elem1, elem2, u, o)
           /\ classes' = IF o.out \in {"AlreadyEquivalent", "PerformedUnion"}
                         THEN Merge(classes, elem1, elem2) ELSE classes

UnionByRank(elem1, elem2) ==
    /\ Idle
    /\ LET o == union_by_rank(self, elem1, elem2)
       IN  /\ Call("union_by_rank", elem1, elem2, None, o)
           /\ classes' = IF o.out \in {"AlreadyEquivalent", "PerformedUnion"}
                         THEN Merge(classes, elem1, elem2) ELSE classes

\* The caller takes the result of the call and goes on.  A stack overflow or
\* a panic ends the program: nothing is called after it.
Return ==
    /\ ~Idle
    /\ last.out \notin {"Panic", "StackOverflow"}
    /\ last' = [op |-> "idle", a |-> None, b |-> None, u |-> None,
                out |-> "Ok", r |-> None]
    /\ pre' = self
    /\ UNCHANGED <<parent, extra, classes>>

\* new, add, find, find_shorten and union_by_rank: the by-rank union-find
Next ==
    \/ Return
    \/ \E elem \in Keys : Find(elem)
    \/ \E elem \in Keys : FindShorten(elem)
    \/ \E elem \in Keys : Add(elem)
    \/ \E elem1, elem2 \in Keys : UnionByRank(elem1, elem2)

Spec == Init /\ [][Next]_vars

\* new, add, find, find_shorten, union_by_rank and union_by with any strategy
NextBy ==
    \/ Return
    \/ \E elem \in SmallKeys : Find(elem)
    \/ \E elem \in SmallKeys : FindShorten(elem)
    \/ \E elem \in SmallKeys : Add(elem)
    \/ \E elem1, elem2 \in SmallKeys : UnionByRank(elem1, elem2)
    \/ \E elem1, elem2 \in SmallKeys, u \in StrategyResults(SmallKeys) :
          UnionBy(elem1, elem2, u)

SpecBy == InitSmall /\ [][NextBy]_vars

\* every public operation, with any union strategy and any supplied rank
NextFull ==
    \/ Return
    \/ \E elem \in TinyKeys : Find(elem)
    \/ \E elem \in TinyKeys : FindShorten(elem)
    \/ \E elem \in TinyKeys : Add(elem)
    \/ \E elem \in TinyKeys, value \in ExtraValues : AddWithExtra(elem, value)
    \/ \E elem \in TinyKeys : FindOrAdd(elem)
    \/ \E elem1, elem2 \in TinyKeys : UnionByRank(elem1, elem2)
    \/ \E elem1, elem2 \in TinyKeys, u \in StrategyResults(TinyKeys) :
          UnionBy(elem1, elem2, u)

SpecFull == InitTiny /\ [][NextFull]_vars

\* new, add, add_with_extra with any supplied rank, find_shorten and
\* union_by_rank: the by-rank union-find grown with caller-supplied ranks
NextRank ==
    \/ Return
    \/ \E elem \in TinyKeys : FindShorten(elem)
    \/ \E elem \in TinyKeys : Add(elem)
    \/ \E elem \in TinyKeys, value \in ExtraValues : AddWithExtra(elem, value)
    \/ \E elem1, elem2 \in TinyKeys : UnionByRank(elem1, elem2)

SpecRank == InitTiny /\ [][NextRank]_vars

\* ------------------------------------------------------ claims' vocabulary
UnionOps == {"union_by", "union_by_rank"}
NotFound == {"Elem1NotFound", "Elem2NotFound"}

SameClass(a, b) == \E c \in classes : a \in c /\ b \in c

\* The distinct representatives of the present keys.
Reps(p) == {find(p, k) : k \in DOMAIN p}

\* The keys on the parent path from elem up to, and excluding, its end.
RECURSIVE path_rec(_, _, _)
path_rec(p, elem, fuel) ==
    IF fuel = 0 \/ elem \notin DOMAIN p \/ p[elem] = elem THEN {}
    ELSE {elem} \cup path_rec(p, p[elem], fuel - 1)

Path(p, elem) == path_rec(p, elem, Cardinality(DOMAIN p) + 1)

SameFinds(p, q) == \A k \in Keys : find(p, k) = find(q, k)

\* Only keys on the paths of the elements in `elems` have a new parent entry,
\* and the new entry is the key's representative.
OnlyShortened(elems) ==
    /\ DOMAIN parent = DOMAIN pre.parent
    /\ \A k \in DOMAIN parent :
          parent[k] # pre.parent[k] =>
              /\ \E e \in elems : k \in Path(pre.parent, e)
              /\ parent[k] = find(pre.parent, k)

\* ------------------------------------------------------------------ claims

\* C1: after any sequence of union_by_rank, add and find_shorten calls on a
\* union-find built by new, every present key has a present representative,
\* and two present keys have the same find result exactly when they are
\* connected by the unions that returned Ok.
C1_FindMatchesUnions ==
    \A a, b \in DOMAIN parent :
        /\ find(parent, a) \in DOMAIN parent
        /\ (find(parent, a) = find(parent, b)) <=> SameClass(a, b)

\* C1's case: unions have joined two keys and left a third apart, and a
\* find_shorten has just rewritten a parent entry.
C1_Witness ==
    /\ last.op = "find_shorten"
    /\ parent # pre.parent
    /\ \E a, b, c \in DOMAIN parent :
          a # b /\ SameClass(a, b) /\ ~SameClass(a, c)

\* C2: in every state the public operations reach, with any union strategy,
\* following parent entries from a present key ends at a key that is its own
\* parent: no entry leads out of the mapping and there is no cycle.
C2_ParentIsForest ==
    \A k \in DOMAIN parent :
        /\ find(parent, k) \in DOMAIN parent
        /\ parent[find(parent, k)] = find(parent, k)

\* C3: when union_by returns PerformedUnion, the key its strategy returned
\* is afterwards the find result of every key of the two merged classes.
C3_StrategyResultIsRepresentative ==
    (last.op = "union_by" /\ last.out = "PerformedUnion") =>
        \A k \in DOMAIN pre.parent :
            find(pre.parent, k) \in {find(pre.parent, last.a),
                                     find(pre.parent, last.b)}
                => find(parent, k) = last.u

\* C4: the parent mapping and the rank mapping hold the same keys in every
\* state the public operations reach, failed calls included.
C4_SameKeySet == DOMAIN parent = DOMAIN extra

\* C4's case: an add of a new key has just gone through.
C4_Witness ==
    /\ last.op \in {"add", "add_with_extra"}
    /\ last.out = "Ok"
    /\ last.a \in DOMAIN parent
    /\ last.a \notin DOMAIN pre.parent

\* C5, as claimed: a union that returns Elem1NotFound or Elem2NotFound leaves
\* every parent entry and every rank as it was.
C5_NotFoundChangesNothing ==
    (last.op \in UnionOps /\ last.out \in NotFound) =>
        parent = pre.parent /\ extra = pre.extra

\* C5, amended: a union that returns Elem1NotFound or Elem2NotFound leaves
\* every rank and every key's find result as it was; with Elem1NotFound no
\* parent entry changes, and with Elem2NotFound the only parent entries that
\* change are those of keys on elem1's path, which now hold elem1's
\* representative.
C5_NotFoundKeepsFinds ==
    (last.op \in UnionOps /\ last.out \in NotFound) =>
        /\ extra = pre.extra
        /\ SameFinds(parent, pre.parent)
        /\ OnlyShortened({last.a})
        /\ last.out = "Elem1NotFound" => parent = pre.parent

\* C5's case: elem2 is absent and elem1 sat at depth 2 or more.
C5_Witness ==
    /\ last.op \in UnionOps
    /\ last.out = "Elem2NotFound"
    /\ parent # pre.parent

\* C6, as claimed: when the strategy refuses, every parent entry and every
\* rank is as it was.
C6_RefusalChangesNothing ==
    last.out = "NotUnionable" =>
        parent = pre.parent /\ extra = pre.extra

\* C6, amended: when the strategy refuses and union_by returns NotUnionable,
\* every rank and every key's find result is as it was; the only parent
\* entries that change are those of keys on the paths of elem1 and elem2,
\* which now hold their representative.
C6_RefusalKeepsFinds ==
    last.out = "NotUnionable" =>
        /\ last.op = "union_by"
        /\ last.u = NotUnionable
        /\ extra = pre.extra
        /\ SameFinds(parent, pre.parent)
        /\ OnlyShortened({last.a, last.b})

\* C6's case: the strategy refused two elements of which one sat at depth 2
\* or more.
C6_Witness ==
    /\ last.op = "union_by"
    /\ last.out = "NotUnionable"
    /\ parent # pre.parent

\* C7: a union returns Elem1NotFound exactly when elem1 is absent,
\* Elem2NotFound exactly when elem1 is present and elem2 absent, and with
\* both present it returns a UnionStatus (or, for union_by, the strategy's
\* refusal).
C7_NotFoundIffAbsent ==
    last.op \in UnionOps =>
        /\ last.out = "Elem1NotFound" <=> last.a \notin DOMAIN pre.parent
        /\ last.out = "Elem2NotFound" <=>
              (last.a \in DOMAIN pre.parent /\ last.b \notin DOMAIN pre.parent)
        /\ (last.a \in DOMAIN pre.parent /\ last.b \in DOMAIN pre.parent) =>
              last.out \in {"AlreadyEquivalent", "PerformedUnion", "NotUnionable"}

\* C8: for present keys a and b, union_by_rank(a, b) returns
\* AlreadyEquivalent exactly when find(a) = find(b) held before and
\* PerformedUnion otherwise; AlreadyEquivalent leaves every key's find result
\* as it was, and PerformedUnion leaves one representative fewer.
C8_UnionStatus ==
    (/\ last.op = "union_by_rank"
     /\ last.a \in DOMAIN pre.parent
     /\ last.b \in DOMAIN pre.parent) =>
        LET same == find(pre.parent, last.a) = find(pre.parent, last.b)
        IN  /\ last.out = IF same THEN "AlreadyEquivalent" ELSE "PerformedUnion"
            /\ same => SameFinds(parent, pre.parent)
            /\ ~same => Cardinality(Reps(parent))
                            = Cardinality(Reps(pre.parent)) - 1

\* C8's case: two different keys that were already in one class, one of them
\* at depth 2 or more, so that the call rewrote a parent entry.
C8_Witness ==
    /\ last.op = "union_by_rank"
    /\ last.out = "AlreadyEquivalent"
    /\ last.a # last.b
    /\ parent # pre.parent

\* C9: in every state new, add, union_by_rank and find_shorten reach,
\* find_shorten(k) returns what find(k) returns, for present and absent k, and
\* leaves every key's find result as it was.
C9_FindShortenIsFind ==
    /\ \A k \in Keys :
          LET f == find_shorten(parent, k)
          IN  f.res = find(parent, k) /\ SameFinds(f.parent, parent)
    /\ last.op = "find_shorten" =>
          last.r = find(pre.parent, last.a) /\ SameFinds(parent, pre.parent)

\* C9's case: a find_shorten that rewrote a parent entry.
C9_Witness ==
    /\ last.op = "find_shorten"
    /\ last.r \in DOMAIN parent
    /\ parent[last.a] # pre.parent[last.a]

\* C10: over one call of new, add, find_shorten or union_by_rank a key's rank
\* stays or grows by one, and it grows only for the representative that
\* survives a union_by_rank of two distinct representatives of equal rank.
C10_RankSteps ==
    \A k \in DOMAIN pre.extra :
        /\ k \in DOMAIN extra
        /\ \/ extra[k] = pre.extra[k]
           \/ /\ extra[k] = pre.extra[k] + 1
              /\ last.op = "union_by_rank"
              /\ last.out = "PerformedUnion"
              /\ LET p1 == find(pre.parent, last.a)
                     p2 == find(pre.parent, last.b)
                 IN  /\ p1 # p2
                     /\ pre.extra[p1] = pre.extra[p2]
                     /\ k \in {p1, p2}
                     /\ parent[k] = k
                     /\ find(parent, last.a) = k
                     /\ find(parent, last.b) = k

\* C10's case: a tie of two representatives of rank 1 has raised one to 2.
C10_Witness ==
    /\ last.op = "union_by_rank"
    /\ \E k \in DOMAIN pre.extra : pre.extra[k] = 1 /\ extra[k] = 2

C12_AddOfPresentKey ==
    (last.op \in {"add", "add_with_extra"} /\ last.a \in DOMAIN pre.parent) =>
        /\ last.out \in {"AddError::Parent", "AddError::Extra"}
        /\ parent = pre.parent
        /\ extra = pre.extra

\* C12's case: add_with_extra of a present key that is not a representative,
\* with a rank other than the one it has.
C12_Witness ==
    /\ last.op = "add_with_extra"
    /\ last.a \in DOMAIN pre.parent
    /\ pre.parent[last.a] # last.a
    /\ last.u # pre.extra[last.a]

\* C13: find_or_add(elem) always returns Ok: find(elem) when elem is present,
\* and elem itself, added as a new singleton representative, when it is not;
\* afterwards find(elem) is Some.
C13_FindOrAddSucceeds ==
    last.op = "find_or_add" =>
        /\ last.out = "Ok"
        /\ last.r = (IF last.a \in DOMAIN pre.parent
                     THEN find(pre.parent, last.a)
                     ELSE last.a)
        /\ find(parent, last.a) \notin {None, Diverge}

\* C14: construction from a collection with a duplicate key returns
\* NewUnionFindError::Parent or NewUnionFindError::Extra; construction from
\* any collection returns and never aborts.
C14_NewReturnsError ==
    last.op = "new" =>
        last.out \in {"Ok", "NewUnionFindError::Parent", "NewUnionFindError::Extra"}

\* the two maps give the same find-equality relation over all keys
SamePartition(p, q) ==
    \A j, k \in Keys : (find(p, j) = find(p, k)) <=> (find(q, j) = find(q, k))

C16_RepointByRank ==
    (last.op = "union_by_rank" /\ last.out = "PerformedUnion") =>
        LET p1 == find(pre.parent, last.a)
            p2 == find(pre.parent, last.b)
            r1 == pre.extra[p1]
            r2 == pre.extra[p2]
        IN  /\ p1 # p2
            /\ r1 < r2 => /\ parent[p1] = p2
                          /\ parent[p2] = p2
                          /\ extra = pre.extra
            /\ r1 > r2 => /\ parent[p2] = p1
                          /\ parent[p1] = p1
                          /\ extra = pre.extra
            /\ r1 = r2 => /\ parent[p1] = p2
                          /\ parent[p2] = p2
                          /\ extra = [pre.extra EXCEPT ![p2] = r2 + 1]

\* C16's case: a union where the first representative has the higher rank and
\* absorbs the second.
C16_Witness ==
    /\ last.op = "union_by_rank"
    /\ last.out = "PerformedUnion"
    /\ pre.extra[find(pre.parent, last.a)] > pre.extra[find(pre.parent, last.b)]
    /\ parent[find(pre.parent, last.b)] = find(pre.parent, last.a)

\* C17: find_shorten(k) of a present key k with representative r leaves every
\* key on the parent path from k up to, and excluding, r with parent r; r stays
\* its own parent, and every other parent entry and every rank is unchanged.
C17_FindShortenFrame ==
    (last.op = "find_shorten" /\ last.a \in DOMAIN pre.parent) =>
        /\ last.r = find(pre.parent, last.a)
        /\ \A k \in Path(pre.parent, last.a) : parent[k] = last.r
        /\ parent[last.r] = last.r
        /\ DOMAIN parent = DOMAIN pre.parent
        /\ \A k \in DOMAIN pre.parent \ Path(pre.parent, last.a) :
              parent[k] = pre.parent[k]
        /\ extra = pre.extra

\* C17's case: find_shorten of a key two or more edges below its
\* representative, in a union-find with a key off that path that is not a
\* representative.
C17_Witness ==
    /\ last.op = "find_shorten"
    /\ Cardinality(Path(pre.parent, last.a)) >= 2
    /\ \E k \in DOMAIN pre.parent \ Path(pre.parent, last.a) : pre.parent[k] # k

\* C19: under new, add, find_shorten and union_by_rank no step removes a key,
\* and a key whose parent entry is another key never becomes a representative
\* again.
C19_RepresentativesOnlyShrink ==
    [][/\ DOMAIN parent \subseteq DOMAIN parent'
       /\ \A k \in DOMAIN parent : parent[k] # k => parent'[k] # k]_vars

\* C19's case: find_shorten gave a key that was not a representative another
\* parent, in a union-find that has grown by a key since the call before.
C19_Witness ==
    /\ last.op = "find_shorten"
    /\ \E k \in DOMAIN pre.parent :
          /\ pre.parent[k] # k
          /\ parent[k] # pre.parent[k]
          /\ parent[k] # k

\* the keys whose representative is r
ClassOf(p, r) == {k \in DOMAIN p : find(p, k) = r}

\* the length of the longest parent path from a key of r's class to r
Height(p, r) ==
    LET lens == {Cardinality(Path(p, k)) : k \in ClassOf(p, r)}
    IN  CHOOSE h \in lens : \A l \in lens : l <= h

\* C18: in every state reached through new, add, add_with_extra with any
\* supplied rank, find_shorten and union_by_rank, every representative r has
\* all keys of its class within rank(r) parent steps, and its class holds at
\* least 2^rank(r) keys.
C18_HeightLogarithmic ==
    \A r \in DOMAIN parent :
        parent[r] = r =>
            /\ Height(parent, r) <= extra[r]
            /\ Cardinality(ClassOf(parent, r)) >= 2 ^ extra[r]

====
